---- MODULE Spec2Model ----
(***************************************************************************)
(* Model of the EML attachment extractor (src/EML附件提取器.py).            *)
(*                                                                         *)
(* Text is a sequence of characters, each character a one-character        *)
(* string; characters outside ASCII are written by code point ("U+672A"). *)
(* A path is a sequence of components, each component a text.              *)
(***************************************************************************)
EXTENDS Naturals, Integers, Sequences, FiniteSets, TLC

VARIABLES
    arg,               \* argument of the pure function under check
    ret,               \* its result, NotCalled before the call
    eml_files,         \* self.eml_files
    processing,        \* self.processing
    start_btn,         \* state of self.start_btn
    create_subfolder,  \* self.create_subfolder
    classify_by_type,  \* self.classify_by_type
    output_dir,        \* self.output_dir
    fs,                \* the file system
    workers,           \* the extraction_worker threads, by start order
    started,           \* number of threads started
    pending,           \* root.after(0, ...) callbacks not yet run
    faults,            \* failures the environment has caused so far
    edits,             \* inputs the user has made so far, clicks on start aside
    lastWrite,         \* history: the last payload write attempted
    lastPart,          \* history: the last message part visited
    returned           \* history: the paths returned so far, and a repeat among them

uiVars == <<eml_files, processing, start_btn, create_subfolder, classify_by_type, output_dir>>
histVars == <<lastWrite, lastPart, returned>>
vars == <<arg, ret, uiVars, fs, workers, started, pending, faults, edits, histVars>>

-----------------------------------------------------------------------------
(* Bounds *)

MaxLen == 3          \* longest short input text
MaxFiles == 2        \* .eml files the user can choose among
MaxStarts == 2       \* extraction_worker threads started in one run
MaxPre == 1          \* files of one name chain present before the run
MaxFaults == 1       \* failures the environment causes in one run
MaxEdits == 3        \* inputs the user makes in one run, clicks on start aside

-----------------------------------------------------------------------------
(* Characters and text *)

NotCalled == <<"<not called>">>

\* the characters of the class [<>:"/\\|?*]
IllegalChars == {"<", ">", ":", "\"", "/", "\\", "|", "?", "*"}

\* characters str.isspace() accepts, among those the model draws
WhitespaceChars == {" ", "\t", "\n"}

Alphabet == IllegalChars \cup WhitespaceChars \cup {"a", "B", ".", "_"}

LengthCap == 200

Unnamed == <<"U+672A", "U+547D", "U+540D">>

Repeat(c, n) == [i \in 1..n |-> c]

Min(S) == CHOOSE x \in S : \A y \in S : x <= y
Max(S) == CHOOSE x \in S : \A y \in S : x >= y

\* re.sub(illegal_chars, "_", filename)
ReplaceIllegal(s) == [i \in 1..Len(s) |-> IF s[i] \in IllegalChars THEN "_" ELSE s[i]]

\* the positions of s holding a character outside chars
Kept(s, chars) == {i \in 1..Len(s) : s[i] \notin chars}

\* s.lstrip(chars)
LStrip(s, chars) ==
    IF Kept(s, chars) = {} THEN <<>> ELSE SubSeq(s, Min(Kept(s, chars)), Len(s))

\* s.rstrip(chars)
RStrip(s, chars) ==
    IF Kept(s, chars) = {} THEN <<>> ELSE SubSeq(s, 1, Max(Kept(s, chars)))

\* s.strip(chars)
Strip(s, chars) == RStrip(LStrip(s, chars), chars)

\* s[:n]
Truncate(s, n) == IF Len(s) > n THEN SubSeq(s, 1, n) ELSE s

\* a sanitizer without the replacement of line 278
sanitize_keeps_illegal(filename) ==
    LET stripped == Strip(filename, {" ", "."})
        capped   == Truncate(stripped, LengthCap)
    IN  IF capped # <<>> THEN capped ELSE Unnamed

sanitize_filename(filename) ==
    LET replaced == ReplaceIllegal(filename)
        stripped == Strip(replaced, {" ", "."})
        capped   == Truncate(stripped, LengthCap)
    IN  IF capped # <<>> THEN capped ELSE Unnamed

-----------------------------------------------------------------------------
(* Header decoding *)

\* the (part, charset) pairs email.header.decode_header yields for a header
\* value; bytes tells a bytes part from a str part
Pair(isBytes, text, charset) == [bytes |-> isBytes, text |-> text, charset |-> charset]

\* a header value: absent (None), or the string that decodes to these pairs
Absent == [present |-> FALSE, pairs |-> <<>>]
Value(pairs) == [present |-> TRUE, pairs |-> pairs]

\* the empty string decodes to the one pair ('', None)
EmptyString == Value(<<Pair(FALSE, <<>>, "None")>>)

\* Python truth of a header value: neither None nor the empty string
Truthy(h) == h.present /\ h # EmptyString

KnownCharsets == {"utf-8", "latin-1"}

\* bytes.decode(charset, errors="replace") of one byte
DecodeByte(b, charset) ==
    IF b = "0xFF"
    THEN IF charset = "latin-1" THEN "U+00FF" ELSE "U+FFFD"
    ELSE b

\* part.decode(charset or "utf-8", errors="replace"), with the fallback to
\* utf-8 on LookupError
DecodeBytes(text, charset) ==
    LET used == IF charset \in KnownCharsets THEN charset ELSE "utf-8"
    IN  [i \in 1..Len(text) |-> DecodeByte(text[i], used)]

RECURSIVE ConcatDecoded(_)
ConcatDecoded(pairs) ==
    IF pairs = <<>> THEN <<>>
    ELSE LET p == Head(pairs)
         IN  (IF p.bytes THEN DecodeBytes(p.text, p.charset) ELSE p.text)
             \o ConcatDecoded(Tail(pairs))

decode_header(header_value) ==
    IF ~header_value.present THEN <<>> ELSE ConcatDecoded(header_value.pairs)

-----------------------------------------------------------------------------
(* Paths: pathlib and os.path on POSIX *)

Front(p) == SubSeq(p, 1, Len(p) - 1)
Last(p) == p[Len(p)]

\* str.lower() of one character
LowerChar(c) == IF c = "B" THEN "b" ELSE c
Lower(s) == [i \in 1..Len(s) |-> LowerChar(s[i])]

\* the components of a path string: split at "/", empty and "." parts dropped
RECURSIVE Components(_, _)
Components(s, cur) ==
    LET done == IF cur = <<>> \/ cur = <<".">> THEN <<>> ELSE <<cur>>
    IN  IF s = <<>> THEN done
        ELSE IF Head(s) = "/" THEN done \o Components(Tail(s), <<>>)
        ELSE Components(Tail(s), Append(cur, Head(s)))

\* Path(dir) / s: an absolute s replaces dir
Join(dir, s) ==
    IF s # <<>> /\ Head(s) = "/" THEN Components(s, <<>>) ELSE dir \o Components(s, <<>>)

\* Path(s).name
PathName(s) == LET c == Components(s, <<>>) IN IF c = <<>> THEN <<>> ELSE Last(c)

\* the last position of c in s, 0 when there is none (str.rfind, 1-based)
RFind(s, c) == LET at == {i \in 1..Len(s) : s[i] = c} IN IF at = {} THEN 0 ELSE Max(at)

\* PurePath.suffix of a file name
NameSuffix(name) ==
    LET i == RFind(name, ".")
    IN  IF 1 < i /\ i < Len(name) THEN SubSeq(name, i, Len(name)) ELSE <<>>

\* Path(s).suffix
Suffix(s) == NameSuffix(PathName(s))

\* Path(p).stem of a path
Stem(p) ==
    LET name == IF p = <<>> THEN <<>> ELSE Last(p)
    IN  SubSeq(name, 1, Len(name) - Len(NameSuffix(name)))

\* os.path.splitext(s): <<root, ext>>
splitext(s) ==
    LET sepIndex == RFind(s, "/")
        dotIndex == RFind(s, ".")
    IN  IF dotIndex > sepIndex
           /\ \E k \in (sepIndex + 1)..(dotIndex - 1) : s[k] # "."
        THEN <<SubSeq(s, 1, dotIndex - 1), SubSeq(s, dotIndex, Len(s))>>
        ELSE <<s, <<>>>>

\* str(counter)
Digits(n) == IF n < 10 THEN <<ToString(n)>> ELSE <<ToString(n \div 10), ToString(n % 10)>>

\* Path(safe_filename).suffix.lower().lstrip("."), "其他" when empty
Other == <<"U+5176", "U+4ED6">>
ExtensionLabel(safe_filename) ==
    LET ext == LStrip(Lower(Suffix(safe_filename)), {"."})
    IN  IF ext # <<>> THEN ext ELSE Other

\* f"{name}_{counter}{ext}"
Candidate(safe_filename, counter) ==
    IF counter = 0 THEN safe_filename
    ELSE LET ne == splitext(safe_filename)
         IN  ne[1] \o <<"_">> \o Digits(counter) \o ne[2]

-----------------------------------------------------------------------------
(* The file system: dirs is the set of directories, files maps each regular *)
(* file to its bytes; the root <<>> always exists                           *)

IsDir(disk, p) == p = <<>> \/ p \in disk.dirs
IsFile(disk, p) == p \in DOMAIN disk.files

\* Path.exists()
Exists(disk, p) == IsDir(disk, p) \/ IsFile(disk, p)

\* Path.mkdir(parents=True, exist_ok=True): [ok, disk]; it fails, nothing
\* created, when the path or one of its parents is a file
RECURSIVE Mkdir(_, _)
Mkdir(disk, p) ==
    IF IsDir(disk, p) THEN [ok |-> TRUE, disk |-> disk]
    ELSE IF IsFile(disk, p) THEN [ok |-> FALSE, disk |-> disk]
    ELSE LET up == Mkdir(disk, Front(p))
         IN  IF ~up.ok THEN up
             ELSE [ok |-> TRUE, disk |-> [up.disk EXCEPT !.dirs = @ \cup {p}]]

\* open(path, "wb") then f.write(payload); outcome is the environment's:
\* "ok", "open" (open fails, nothing created), "write" (the new file is
\* created and the write fails)
WriteFile(disk, path, payload, outcome) ==
    IF outcome = "open" THEN disk
    ELSE [disk EXCEPT !.files =
            [q \in DOMAIN @ \cup {path} |->
                IF q = path THEN (IF outcome = "ok" THEN payload ELSE <<>>) ELSE @[q]]]

\* a search that tests the name once, "if" in place of "while"
ProbeOnce(disk, dir, safe_filename, counter) ==
    IF Exists(disk, Join(dir, Candidate(safe_filename, counter)))
    THEN counter + 1
    ELSE counter

\* a search that numbers every file, the plain name never tried
ProbeNumbered(disk, dir, safe_filename, counter) ==
    LET free == {k \in 1..(Cardinality(DOMAIN disk.files) + Cardinality(disk.dirs) + 1) :
                    ~Exists(disk, Join(dir, Candidate(safe_filename, k)))}
    IN  CHOOSE k \in free : \A other \in free : k <= other

\* the first counter whose candidate does not exist (lines 349-354)
RECURSIVE Probe(_, _, _, _)
Probe(disk, dir, safe_filename, counter) ==
    IF Exists(disk, Join(dir, Candidate(safe_filename, counter)))
    THEN Probe(disk, dir, safe_filename, counter + 1)
    ELSE counter

-----------------------------------------------------------------------------
(* Inputs of sanitize_filename *)

RECURSIVE TextsUpTo(_)
TextsUpTo(n) ==
    IF n = 0 THEN {<<>>}
    ELSE LET shorter == TextsUpTo(n - 1)
         IN  shorter \cup {Append(s, c) : s \in {t \in shorter : Len(t) = n - 1}, c \in Alphabet}

ShortTexts == TextsUpTo(MaxLen)

\* texts around the length cap: a head, a run of one character, a tail
LongTexts ==
    {h \o Repeat(c, n) \o t :
        h \in TextsUpTo(1), c \in {"a", ".", "/"},
        n \in (LengthCap - 2)..(LengthCap + 1), t \in TextsUpTo(1)}

SanInputs == ShortTexts \cup LongTexts

-----------------------------------------------------------------------------
(* Messages *)

NoPayload == [present |-> FALSE, bytes |-> <<>>]
Bytes(b) == [present |-> TRUE, bytes |-> b]

\* a part of a parsed message: get_content_disposition(), get_filename(),
\* get_payload(decode=True), and the sub-parts of a multipart
Part(disp, filename, payload) ==
    [disp |-> disp, filename |-> filename, payload |-> payload, children |-> <<>>]
Multipart(children) ==
    [disp |-> "None", filename |-> Absent, payload |-> NoPayload, children |-> children]

\* msg.walk(): the part, then its sub-parts, depth first
RECURSIVE walk(_)
RECURSIVE WalkAll(_)
walk(part) == <<part>> \o WalkAll(part.children)
WalkAll(parts) == IF parts = <<>> THEN <<>> ELSE walk(Head(parts)) \o WalkAll(Tail(parts))

Plain(text) == Value(<<Pair(FALSE, text, "None")>>)
\* "=?utf-8?q??=": a non-empty string that decodes to nothing
EmptyWord == Value(<<Pair(TRUE, <<>>, "utf-8")>>)
\* an encoded word of an unknown charset, then plain text: decodes to a.B
NameAB == Value(<<Pair(TRUE, <<"a">>, "x-unknown"), Pair(FALSE, <<".", "B">>, "None")>>)
\* a name that tries to leave the directory: sanitized to _a
NameUp == Plain(<<".", ".", "/", "a">>)
Data == Bytes(<<"p">>)

Body == Part("None", Absent, Bytes(<<"t">>))
Attached == Part("attachment", NameAB, Data)

\* a text body and three attachments of one name, the second one nested
SameNames == Multipart(<<Body, Attached, Multipart(<<Attached>>), Attached>>)

\* an attachment whose name decodes to nothing, then the parts the loop passes
\* over: inline, empty payload, no payload, no filename, empty filename
Passed ==
    Multipart(<<Part("attachment", EmptyWord, Data),
                Part("inline", NameAB, Data),
                Part("attachment", NameAB, Bytes(<<>>)),
                Part("attachment", NameAB, NoPayload),
                Part("attachment", Absent, Data),
                Part("attachment", EmptyString, Data)>>)

RECURSIVE SeqsUpTo(_, _)
SeqsUpTo(S, n) ==
    IF n = 0 THEN {<<>>}
    ELSE LET shorter == SeqsUpTo(S, n - 1)
         IN  shorter \cup {Append(q, x) : q \in {t \in shorter : Len(t) = n - 1}, x \in S}

\* a parsed message: its Subject header (msg.get("Subject", "")) and root part
Message(subject, root) == [subject |-> subject, root |-> root]

AllMessages ==
    {Message(EmptyString, SameNames),
     Message(Plain(<<".", ".", "/", "s">>), Passed),
     Message(EmptyWord, Part("attachment", NameUp, Data))}

\* the messages of the application run
AppMessages == {Message(Plain(<<"s">>), Attached)}

-----------------------------------------------------------------------------
(* Constants of the program and of its surroundings *)

SUPPORTED_EXTENSION == <<".", "e", "m", "l">>
DEFAULT_OUTPUT_FOLDER == <<"U+63D0", "U+53D6", "U+7684", "U+9644", "U+4EF6">>

InputDir == <<<<"i">>>>
EmlPath(k) == Append(InputDir, Repeat("m", k) \o SUPPORTED_EXTENSION)
Catalog == {EmlPath(k) : k \in 1..MaxFiles}

Unset == <<>>
DefaultDir(first_file) == Append(Front(first_file), DEFAULT_OUTPUT_FOLDER)

NoError == "None"
\* str(e): empty for an exception raised without arguments (MemoryError)
ErrorTexts == {"", "Errno"}

EmptyFs == [dirs |-> {InputDir}, files |-> <<>>]

\* the file system before the run: nothing, or in root some of the files a.B,
\* a_1.B, ..., or a directory named a.B next to files named b and m, which
\* are in the way of the directories of a run that sorts by subject or type
ChainName(k) == Candidate(<<"a", ".", "B">>, k)
WithFiles(root, names) ==
    [dirs |-> {InputDir, root}, files |-> [q \in {Append(root, n) : n \in names} |-> <<"o">>]]
PreTrees(root) ==
    {EmptyFs}
    \cup {WithFiles(root, {ChainName(k) : k \in ks}) : ks \in SUBSET (0..(MaxPre - 1))}
    \cup {[WithFiles(root, {<<"b">>, <<"m">>}) EXCEPT
              !.dirs = @ \cup {Append(root, ChainName(0))}]}

-----------------------------------------------------------------------------
(* extraction_worker threads *)

Workers == 1..MaxStarts

\* the locals of extract_attachments, and for the record: the Subject header,
\* the option read at line 319, the parts visited, those among them that are
\* attachments with a decoded name and a payload, whether the call raised and
\* at which part
NoFrame ==
    [parts |-> <<>>, base_output_dir |-> <<>>, attachments_found |-> <<>>,
     header |-> Absent, subfolder |-> FALSE,
     visited |-> 0, qualifying |-> 0, raised |-> FALSE, failedAt |-> 0]

Idle ==
    [pc |-> "idle", output_dir |-> <<>>, total_files |-> 0, total_attachments |-> 0,
     success_count |-> 0, error_count |-> 0, index |-> 0, eml_path |-> <<>>,
     frame |-> NoFrame, attachments |-> <<>>, error |-> NoError,
     snapshot |-> <<>>, processed |-> <<>>, failed |-> 0, returnedLen |-> 0]

NoWrite ==
    [valid |-> FALSE, path |-> <<>>, existed |-> FALSE, kept |-> TRUE, probes |-> 0,
     taken |-> {}, dir |-> <<>>, root |-> <<>>, eml_path |-> <<>>, header |-> Absent,
     subfolder |-> FALSE, classify |-> FALSE, filename |-> <<>>, counter |-> 0,
     outcome |-> "ok"]

NoPart ==
    [valid |-> FALSE, attachment |-> FALSE, decoded |-> <<>>, payload |-> NoPayload,
     wrote |-> FALSE, madeDirs |-> FALSE, raised |-> FALSE]

\* the state __init__ leaves
Constructed ==
    /\ eml_files = <<>>
    /\ processing = FALSE
    /\ start_btn = "normal"
    /\ create_subfolder = TRUE
    /\ classify_by_type = FALSE
    /\ output_dir = Unset
    /\ workers = [w \in Workers |-> Idle]
    /\ started = 0
    /\ pending = 0
    /\ faults = 0
    /\ edits = 0
    /\ lastWrite = NoWrite
    /\ lastPart = NoPart
    /\ returned = [paths |-> {}, repeat |-> FALSE]

-----------------------------------------------------------------------------
(* The interface thread *)

\* add_files(files), lines 231-241
add_files(files_, list) ==
    LET RECURSIVE AddAll(_, _)
        AddAll(rest, acc) ==
            IF rest = <<>> THEN acc
            ELSE AddAll(Tail(rest),
                        IF \E i \in 1..Len(acc) : acc[i] = Head(rest)
                        THEN acc ELSE Append(acc, Head(rest)))
    IN  AddAll(files_, list)

\* what a file dialog or a folder scan can hand over, nothing included
FileChoices == SeqsUpTo(Catalog, 2)

\* select_files, lines 210-217
select_files ==
    /\ edits < MaxEdits
    /\ edits' = edits + 1
    /\ \E files_ \in FileChoices :
          eml_files' = IF files_ # <<>> THEN add_files(files_, eml_files) ELSE eml_files
    /\ UNCHANGED <<arg, ret, processing, start_btn, create_subfolder, classify_by_type,
                   output_dir, fs, workers, started, pending, faults, histVars>>

\* select_folder, lines 219-229: the scan finds some files or none
select_folder ==
    /\ edits < MaxEdits
    /\ edits' = edits + 1
    /\ \E found \in FileChoices :
          eml_files' = IF found # <<>> THEN add_files(found, eml_files) ELSE eml_files
    /\ UNCHANGED <<arg, ret, processing, start_btn, create_subfolder, classify_by_type,
                   output_dir, fs, workers, started, pending, faults, histVars>>

\* clear_files, lines 259-263
clear_files ==
    /\ edits < MaxEdits
    /\ edits' = edits + 1
    /\ eml_files' = <<>>
    /\ UNCHANGED <<arg, ret, processing, start_btn, create_subfolder, classify_by_type,
                   output_dir, fs, workers, started, pending, faults, histVars>>

\* what the directory dialog can hand over: nothing, or the directory o
FolderChoices == {Unset, <<<<"o">>>>}

\* select_output_dir, lines 269-273
select_output_dir ==
    /\ edits < MaxEdits
    /\ edits' = edits + 1
    /\ \E folder \in FolderChoices :
          output_dir' = IF folder # Unset THEN folder ELSE output_dir
    /\ UNCHANGED <<arg, ret, eml_files, processing, start_btn, create_subfolder,
                   classify_by_type, fs, workers, started, pending, faults, histVars>>

\* the Entry of lines 129-131 writes what the user types into self.output_dir
output_entry ==
    /\ edits < MaxEdits
    /\ edits' = edits + 1
    /\ output_dir' \in FolderChoices
    /\ UNCHANGED <<arg, ret, eml_files, processing, start_btn, create_subfolder,
                   classify_by_type, fs, workers, started, pending, faults, histVars>>

\* the Checkbutton of lines 140-144 flips self.create_subfolder
check_create_subfolder ==
    /\ edits < MaxEdits
    /\ edits' = edits + 1
    /\ create_subfolder' = ~create_subfolder
    /\ UNCHANGED <<arg, ret, eml_files, processing, start_btn, classify_by_type,
                   output_dir, fs, workers, started, pending, faults, histVars>>

\* the Checkbutton of lines 147-151 flips self.classify_by_type
check_classify_by_type ==
    /\ edits < MaxEdits
    /\ edits' = edits + 1
    /\ classify_by_type' = ~classify_by_type
    /\ UNCHANGED <<arg, ret, eml_files, processing, start_btn, create_subfolder,
                   output_dir, fs, workers, started, pending, faults, histVars>>

\* a start that neither tests self.processing nor disables the button
start_unguarded ==
    /\ start_btn = "normal"
    /\ IF eml_files = <<>>
       THEN UNCHANGED <<processing, output_dir, workers, started>>
       ELSE /\ started < MaxStarts
            /\ LET dir == IF output_dir = Unset THEN DefaultDir(eml_files[1]) ELSE output_dir
               IN  /\ output_dir' = dir
                   /\ workers' = [workers EXCEPT ![started + 1] =
                                     [Idle EXCEPT !.pc = "begin", !.output_dir = dir]]
            /\ processing' = TRUE
            /\ started' = started + 1
    /\ UNCHANGED <<arg, ret, eml_files, start_btn, create_subfolder, classify_by_type, fs,
                   pending, faults, edits, histVars>>

\* start_extraction, lines 367-390, run by a click on the enabled start_btn
start_extraction ==
    /\ start_btn = "normal"
    /\ IF processing \/ eml_files = <<>>
       THEN UNCHANGED <<processing, start_btn, output_dir, workers, started>>
       ELSE /\ started < MaxStarts
            /\ LET dir == IF output_dir = Unset THEN DefaultDir(eml_files[1]) ELSE output_dir
               IN  /\ output_dir' = dir
                   /\ workers' = [workers EXCEPT ![started + 1] =
                                     [Idle EXCEPT !.pc = "begin", !.output_dir = dir]]
            /\ processing' = TRUE
            /\ start_btn' = "disabled"
            /\ started' = started + 1
    /\ UNCHANGED <<arg, ret, eml_files, create_subfolder, classify_by_type, fs, pending,
                   faults, edits, histVars>>

\* the callback of root.after(0, ...), line 442
enable_start_btn ==
    /\ pending > 0
    /\ pending' = pending - 1
    /\ start_btn' = "normal"
    /\ UNCHANGED <<arg, ret, eml_files, processing, create_subfolder, classify_by_type,
                   output_dir, fs, workers, started, faults, edits, histVars>>

-----------------------------------------------------------------------------
(* extract_attachments, lines 303-365, one step per visited part *)

\* what the environment may do to the next write, within its budget
Outcomes == {o \in {"ok", "open", "write"} : o # "ok" => faults < MaxFaults}

\* an except clause that hands back the paths written so far
RaiseKeepsPaths(worker, message, at) ==
    [worker EXCEPT !.pc = "resume", !.attachments = worker.frame.attachments_found,
                   !.error = message, !.frame.raised = TRUE, !.frame.failedAt = at]

\* the except clause, lines 364-365
Raise(worker, message, at) ==
    [worker EXCEPT !.pc = "resume", !.attachments = <<>>, !.error = message,
                   !.frame.raised = TRUE, !.frame.failedAt = at]

\* lines 305-324: read and parse the file, make the base directory
ExtractOpen(w, messages) ==
    /\ workers[w].pc = "extract"
    /\ LET me == [workers[w] EXCEPT !.processed = Append(@, workers[w].eml_path),
                                    !.frame = NoFrame]
       IN  \/ \E message \in ErrorTexts :
                /\ faults < MaxFaults
                /\ faults' = faults + 1
                /\ workers' = [workers EXCEPT ![w] = Raise(me, message, 0)]
                /\ fs' = fs
           \/ \E msg \in messages :
                LET decoded == decode_header(msg.subject)
                    subject == IF decoded = <<>> THEN Stem(me.eml_path) ELSE decoded
                    safe_subject == sanitize_filename(subject)
                    base_output_dir ==
                        IF create_subfolder THEN Join(me.output_dir, safe_subject)
                        ELSE me.output_dir
                    made == Mkdir(fs, base_output_dir)
                IN  /\ fs' = made.disk
                    /\ faults' = faults
                    /\ workers' = [workers EXCEPT ![w] =
                          IF ~made.ok THEN Raise(me, "Errno", 0)
                          ELSE [me EXCEPT !.pc = "walk",
                                          !.frame.parts = walk(msg.root),
                                          !.frame.base_output_dir = base_output_dir,
                                          !.frame.header = msg.subject,
                                          !.frame.subfolder = create_subfolder]]
    /\ UNCHANGED <<arg, ret, uiVars, started, pending, edits, histVars>>

\* the counters whose candidate exists
TakenCounters(disk, dir, safe_filename) ==
    {k \in 0..(Cardinality(DOMAIN disk.files) + Cardinality(disk.dirs)) :
        Exists(disk, Join(dir, Candidate(safe_filename, k)))}

\* the test of lines 330-339 on a part
Extracted(part) ==
    /\ part.disp = "attachment"
    /\ Truthy(part.filename)
    /\ part.payload.present /\ part.payload.bytes # <<>>

\* lines 327-360: one part of the walk
ExtractPart(w) ==
    /\ workers[w].pc = "walk"
    /\ workers[w].frame.parts # <<>>
    /\ LET me == workers[w]
           part == Head(me.frame.parts)
           at == me.frame.visited + 1
           filename == decode_header(part.filename)
           safe_filename == sanitize_filename(filename)
           dir == IF classify_by_type
                  THEN Join(me.frame.base_output_dir, ExtensionLabel(safe_filename))
                  ELSE me.frame.base_output_dir
           seen == [valid |-> TRUE, attachment |-> part.disp = "attachment",
                    decoded |-> filename, payload |-> part.payload,
                    wrote |-> FALSE, madeDirs |-> FALSE, raised |-> FALSE]
           next == [me EXCEPT !.frame.parts = Tail(@), !.frame.visited = at,
                              !.frame.qualifying =
                                  IF /\ part.disp = "attachment"
                                     /\ filename # <<>>
                                     /\ part.payload.present /\ part.payload.bytes # <<>>
                                  THEN @ + 1 ELSE @]
       IN  IF ~Extracted(part)
           THEN /\ workers' = [workers EXCEPT ![w] = next]
                /\ lastPart' = seen
                /\ lastWrite' = NoWrite
                /\ fs' = fs
                /\ faults' = faults
           ELSE \E outcome \in Outcomes :
                LET made == Mkdir(fs, dir)
                    counter == Probe(made.disk, dir, safe_filename, 0)
                    output_path == Join(dir, Candidate(safe_filename, counter))
                    written == WriteFile(made.disk, output_path, part.payload.bytes, outcome)
                IN  IF ~made.ok
                    THEN /\ outcome = "ok"
                         /\ fs' = made.disk
                         /\ faults' = faults
                         /\ workers' = [workers EXCEPT ![w] = Raise(next, "Errno", at)]
                         /\ lastPart' = [seen EXCEPT !.madeDirs = made.disk # fs,
                                                     !.raised = TRUE]
                         /\ lastWrite' = NoWrite
                    ELSE /\ fs' = written
                         /\ faults' = IF outcome # "ok" THEN faults + 1 ELSE faults
                         /\ workers' = [workers EXCEPT ![w] =
                               IF outcome # "ok" THEN Raise(next, "Errno", at)
                               ELSE [next EXCEPT
                                       !.frame.attachments_found = Append(@, output_path)]]
                         /\ lastPart' = [seen EXCEPT !.madeDirs = made.disk # fs,
                                                     !.wrote = written # made.disk,
                                                     !.raised = outcome # "ok"]
                         /\ lastWrite' =
                               [valid |-> TRUE, path |-> output_path,
                                existed |-> Exists(made.disk, output_path),
                                kept |-> \A q \in DOMAIN made.disk.files :
                                            /\ q \in DOMAIN written.files
                                            /\ written.files[q] = made.disk.files[q],
                                probes |-> counter + 1,
                                taken |-> TakenCounters(made.disk, dir, safe_filename),
                                dir |-> dir,
                                root |-> me.output_dir,
                                eml_path |-> me.eml_path,
                                header |-> me.frame.header,
                                subfolder |-> me.frame.subfolder,
                                classify |-> classify_by_type,
                                filename |-> filename,
                                counter |-> counter, outcome |-> outcome]
    /\ UNCHANGED <<arg, ret, uiVars, started, pending, edits, returned>>

\* line 362, after the last part
ExtractReturn(w) ==
    /\ workers[w].pc = "walk"
    /\ workers[w].frame.parts = <<>>
    /\ LET found == workers[w].frame.attachments_found
       IN  /\ workers' = [workers EXCEPT ![w] =
                 [@ EXCEPT !.pc = "resume", !.attachments = found, !.error = NoError]]
           /\ returned' =
                 [paths |-> returned.paths \cup {found[i] : i \in 1..Len(found)},
                  repeat |-> \/ returned.repeat
                             \/ \E i \in 1..Len(found) : found[i] \in returned.paths
                             \/ \E i, j \in 1..Len(found) : i # j /\ found[i] = found[j]]
    /\ lastWrite' = NoWrite
    /\ lastPart' = NoPart
    /\ UNCHANGED <<arg, ret, uiVars, fs, started, pending, faults, edits>>

-----------------------------------------------------------------------------
(* extraction_worker, lines 392-449 *)

\* lines 394-401
WorkerBegin(w) ==
    /\ workers[w].pc = "begin"
    /\ workers' = [workers EXCEPT ![w] =
          [@ EXCEPT !.pc = "iterate", !.total_files = Len(eml_files),
                    !.snapshot = eml_files]]
    /\ UNCHANGED <<arg, ret, uiVars, fs, started, pending, faults, edits, histVars>>

\* lines 403-410: the list iterator hands out self.eml_files[index] while there
\* is one; the progress value divides by total_files
WorkerIterate(w) ==
    /\ workers[w].pc = "iterate"
    /\ workers' = [workers EXCEPT ![w] =
          IF @.index >= Len(eml_files) THEN [@ EXCEPT !.pc = "summary"]
          ELSE IF @.total_files = 0 THEN [@ EXCEPT !.pc = "crashed"]
          ELSE [@ EXCEPT !.pc = "extract", !.index = @ + 1,
                         !.eml_path = eml_files[workers[w].index + 1]]]
    /\ UNCHANGED <<arg, ret, uiVars, fs, started, pending, faults, edits, histVars>>

\* lines 413-425
WorkerResume(w) ==
    /\ workers[w].pc = "resume"
    /\ LET me == workers[w]
           counted ==
               IF me.error # NoError /\ me.error # ""
               THEN [me EXCEPT !.error_count = @ + 1]
               ELSE IF me.attachments # <<>>
               THEN [me EXCEPT !.total_attachments = @ + Len(me.attachments),
                               !.success_count = @ + 1]
               ELSE [me EXCEPT !.success_count = @ + 1]
       IN  workers' = [workers EXCEPT ![w] =
              [counted EXCEPT !.pc = "iterate", !.frame = NoFrame,
                              !.attachments = <<>>, !.error = NoError,
                              !.failed = IF me.error # NoError THEN @ + 1 ELSE @,
                              !.returnedLen = @ + Len(me.attachments)]]
    /\ UNCHANGED <<arg, ret, uiVars, fs, started, pending, faults, edits, histVars>>

\* lines 428-441
WorkerSummary(w) ==
    /\ workers[w].pc = "summary"
    /\ workers' = [workers EXCEPT ![w].pc = "enable"]
    /\ processing' = FALSE
    /\ UNCHANGED <<arg, ret, eml_files, start_btn, create_subfolder, classify_by_type,
                   output_dir, fs, started, pending, faults, edits, histVars>>

\* line 442
WorkerEnable(w) ==
    /\ workers[w].pc = "enable"
    /\ workers' = [workers EXCEPT ![w].pc = "ask"]
    /\ pending' = pending + 1
    /\ UNCHANGED <<arg, ret, uiVars, fs, started, faults, edits, histVars>>

\* lines 444-449, then the thread ends
WorkerAsk(w) ==
    /\ workers[w].pc = "ask"
    /\ workers' = [workers EXCEPT ![w] = [Idle EXCEPT !.pc = "done"]]
    /\ UNCHANGED <<arg, ret, uiVars, fs, started, pending, faults, edits, histVars>>

-----------------------------------------------------------------------------
(* The application: the interface thread and the worker threads *)

Init ==
    /\ arg = <<>>
    /\ ret = NotCalled
    /\ Constructed
    /\ fs = EmptyFs

Next ==
    \/ select_files
    \/ select_folder
    \/ clear_files
    \/ select_output_dir
    \/ output_entry
    \/ check_create_subfolder
    \/ check_classify_by_type
    \/ start_extraction
    \/ enable_start_btn
    \/ \E w \in Workers : WorkerBegin(w)
    \/ \E w \in Workers : WorkerIterate(w)
    \/ \E w \in Workers : ExtractOpen(w, AppMessages)
    \/ \E w \in Workers : ExtractPart(w)
    \/ \E w \in Workers : ExtractReturn(w)
    \/ \E w \in Workers : WorkerResume(w)
    \/ \E w \in Workers : WorkerSummary(w)
    \/ \E w \in Workers : WorkerEnable(w)
    \/ \E w \in Workers : WorkerAsk(w)

Spec == Init /\ [][Next]_vars

-----------------------------------------------------------------------------
(* One batch of extraction_worker, the interface left alone *)

BatchDir == DefaultDir(EmlPath(1))

InitExtract ==
    /\ arg = <<>>
    /\ ret = NotCalled
    /\ eml_files \in {[i \in 1..n |-> EmlPath(i)] : n \in 1..MaxFiles}
    /\ processing = TRUE
    /\ start_btn = "disabled"
    /\ create_subfolder \in BOOLEAN
    /\ classify_by_type \in BOOLEAN
    /\ output_dir = BatchDir
    /\ fs \in PreTrees(BatchDir)
    /\ workers = [w \in Workers |->
                    IF w = 1 THEN [Idle EXCEPT !.pc = "begin", !.output_dir = BatchDir]
                    ELSE Idle]
    /\ started = 1
    /\ pending = 0
    /\ faults = 0
    /\ edits = 0
    /\ lastWrite = NoWrite
    /\ lastPart = NoPart
    /\ returned = [paths |-> {}, repeat |-> FALSE]

NextExtract ==
    \/ \E w \in Workers : WorkerBegin(w)
    \/ \E w \in Workers : WorkerIterate(w)
    \/ \E w \in Workers : ExtractOpen(w, AllMessages)
    \/ \E w \in Workers : ExtractPart(w)
    \/ \E w \in Workers : ExtractReturn(w)
    \/ \E w \in Workers : WorkerResume(w)
    \/ \E w \in Workers : WorkerSummary(w)
    \/ \E w \in Workers : WorkerEnable(w)
    \/ \E w \in Workers : WorkerAsk(w)
    \/ enable_start_btn

SpecExtract == InitExtract /\ [][NextExtract]_vars

-----------------------------------------------------------------------------
(* The user has chosen the files and clicks the start button at will *)

InitStart ==
    /\ arg = <<>>
    /\ ret = NotCalled
    /\ eml_files \in {[i \in 1..n |-> EmlPath(i)] : n \in 1..MaxFiles}
    /\ processing = FALSE
    /\ start_btn = "normal"
    /\ create_subfolder = TRUE
    /\ classify_by_type = FALSE
    /\ output_dir = Unset
    /\ fs = EmptyFs
    /\ workers = [w \in Workers |-> Idle]
    /\ started = 0
    /\ pending = 0
    /\ faults = 0
    /\ edits = 1
    /\ lastWrite = NoWrite
    /\ lastPart = NoPart
    /\ returned = [paths |-> {}, repeat |-> FALSE]

NextStart ==
    \/ start_extraction
    \/ enable_start_btn
    \/ \E w \in Workers : WorkerBegin(w)
    \/ \E w \in Workers : WorkerIterate(w)
    \/ \E w \in Workers : ExtractOpen(w, AppMessages)
    \/ \E w \in Workers : ExtractPart(w)
    \/ \E w \in Workers : ExtractReturn(w)
    \/ \E w \in Workers : WorkerResume(w)
    \/ \E w \in Workers : WorkerSummary(w)
    \/ \E w \in Workers : WorkerEnable(w)
    \/ \E w \in Workers : WorkerAsk(w)

SpecStart == InitStart /\ [][NextStart]_vars

-----------------------------------------------------------------------------
(* sanitize_filename applied to one input *)

InitSan ==
    /\ arg \in SanInputs
    /\ ret = NotCalled
    /\ Constructed
    /\ fs = EmptyFs

CallSanitize ==
    /\ ret = NotCalled
    /\ ret' = sanitize_filename(arg)
    /\ UNCHANGED <<arg, uiVars, fs, workers, started, pending, faults, edits, histVars>>

NextSan == CallSanitize

SpecSan == InitSan /\ [][NextSan]_vars

-----------------------------------------------------------------------------
(* Properties *)

\* the thread runs: started and neither returned nor killed by an exception
Alive(w) == workers[w].pc \notin {"idle", "done", "crashed"}

\* the thread is between its first line and the reset of self.processing
Working(w) == workers[w].pc \in {"begin", "iterate", "extract", "walk", "resume", "summary"}

\* the thread has left the loop over the files
Completed(w) == workers[w].pc \in {"summary", "enable", "ask"}

ToSet(q) == {q[i] : i \in 1..Len(q)}

\* C1: every payload write goes to a path that did not exist right before it,
\* leaves every file that existed as it was, and no path is returned twice in
\* the batch.
C1_WritesOnlyFreshPaths ==
    /\ lastWrite.valid => ~lastWrite.existed /\ lastWrite.kept
    /\ ~returned.repeat

\* a write that had to pass over two taken names, after paths were returned
C1_Witness ==
    /\ lastWrite.valid
    /\ lastWrite.outcome = "ok"
    /\ lastWrite.counter = 2
    /\ returned.paths # {}

\* C2: the path written is the first free one of name.ext, name_1.ext,
\* name_2.ext, ...: every lower counter was taken, the chosen one was not, and
\* with k names taken the search made at most k + 1 probes.
C2_FirstFreeCandidate ==
    lastWrite.valid =>
        LET safe == sanitize_filename(lastWrite.filename)
            dot == RFind(safe, ".")
            stem == IF dot > 1 THEN SubSeq(safe, 1, dot - 1) ELSE safe
            ext == IF dot > 1 THEN SubSeq(safe, dot, Len(safe)) ELSE <<>>
            name == IF lastWrite.counter = 0 THEN safe
                    ELSE stem \o <<"_">> \o Digits(lastWrite.counter) \o ext
        IN  /\ lastWrite.path = Append(lastWrite.dir, name)
            /\ lastWrite.counter \notin lastWrite.taken
            /\ \A k \in 0..(lastWrite.counter - 1) : k \in lastWrite.taken
            /\ lastWrite.probes = lastWrite.counter + 1
            /\ lastWrite.probes <= Cardinality(lastWrite.taken) + 1

\* the second attachment of one name, written as a_1.B next to the a.B that
\* the same call wrote
C2_Witness ==
    \E w \in Workers :
        LET found == workers[w].frame.attachments_found
        IN  /\ lastWrite.valid
            /\ lastWrite.taken = {0}
            /\ Len(found) = 2
            /\ found[1] = Append(lastWrite.dir, <<"a", ".", "B">>)
            /\ found[2] = Append(lastWrite.dir, <<"a", "_", "1", ".", "B">>)

\* C3: the result of sanitize_filename holds no illegal character, is not
\* empty, is not made of dots only or of whitespace only, and has at most 200
\* characters.
C3_SanitizedNameIsSafe ==
    ret # NotCalled =>
        /\ \A i \in 1..Len(ret) : ret[i] \notin IllegalChars
        /\ ret # <<>>
        /\ \E i \in 1..Len(ret) : ret[i] # "."
        /\ \E i \in 1..Len(ret) : ret[i] \notin WhitespaceChars
        /\ Len(ret) <= LengthCap

\* C4: a call that returns without error returns one path for each attachment
\* part with a non-empty decoded filename and a non-empty payload.
C4_OnePathPerQualifyingPart ==
    \A w \in Workers :
        workers[w].pc = "resume" /\ ~workers[w].frame.raised =>
            Len(workers[w].attachments) = workers[w].frame.qualifying

\* C5: a call that fails returns no path and an error, has visited no part
\* after the failing one, and leaves every attachment it wrote before the
\* failure on disk with its payload.
C5_FailureReturnsNothingKeepsFiles ==
    \A w \in Workers :
        workers[w].pc = "resume" /\ workers[w].frame.raised =>
            /\ workers[w].attachments = <<>>
            /\ workers[w].error # NoError
            /\ workers[w].frame.visited = workers[w].frame.failedAt
            /\ \A path \in ToSet(workers[w].frame.attachments_found) :
                  path \in DOMAIN fs.files /\ fs.files[path] = Data.bytes

\* a call that failed after it had written an attachment, parts still unvisited
C5_Witness ==
    \E w \in Workers :
        /\ workers[w].pc = "resume"
        /\ workers[w].frame.raised
        /\ workers[w].frame.attachments_found # <<>>
        /\ workers[w].frame.parts # <<>>

\* C6: when the batch ends every file has been processed once, in list order,
\* the two counts add up to the number of files, error_count is the number of
\* calls that failed, and total_attachments is the number of paths returned.
C6_BatchCountsEveryFile ==
    \A w \in Workers :
        Completed(w) =>
            /\ workers[w].processed = eml_files
            /\ workers[w].success_count + workers[w].error_count = Len(eml_files)
            /\ workers[w].error_count = workers[w].failed
            /\ workers[w].total_attachments = workers[w].returnedLen

\* C7: the path written is outputRoot / [S /] [E /] F: S the sanitized subject
\* (of the file stem when the subject decodes to nothing) iff the subfolder
\* option was set, E the lower-cased extension of the sanitized filename (the
\* fallback label without one) iff the classify option was set, F the
\* sanitized filename with its counter; each is one component, none is "." or
\* "..".
C7_PathShape ==
    lastWrite.valid =>
        LET decoded == decode_header(lastWrite.header)
            subject == IF decoded = <<>> THEN Stem(lastWrite.eml_path) ELSE decoded
            safe == sanitize_filename(lastWrite.filename)
            dot == RFind(safe, ".")
            ext == IF 1 < dot /\ dot < Len(safe)
                   THEN Lower(SubSeq(safe, dot + 1, Len(safe))) ELSE Other
            S == IF lastWrite.subfolder THEN <<sanitize_filename(subject)>> ELSE <<>>
            E == IF lastWrite.classify THEN <<ext>> ELSE <<>>
            F == Candidate(safe, lastWrite.counter)
        IN  /\ lastWrite.path = lastWrite.root \o S \o E \o <<F>>
            /\ \A i \in (Len(lastWrite.root) + 1)..Len(lastWrite.path) :
                  /\ lastWrite.path[i] \notin {<<>>, <<".">>, <<".", ".">>}
                  /\ \A j \in 1..Len(lastWrite.path[i]) : lastWrite.path[i][j] # "/"

\* a write with both options set, for a message whose subject decodes to
\* nothing: below the file stem and the extension
C7_Witness ==
    /\ lastWrite.valid
    /\ lastWrite.subfolder /\ lastWrite.classify
    /\ decode_header(lastWrite.header) = <<>>
    /\ lastWrite.path = lastWrite.root \o <<<<"m">>, <<"b">>, <<"a", ".", "B">>>>

\* C8: an attachment part whose decoded filename is empty, or whose payload is
\* absent or empty, is passed over: nothing is written, no directory is made,
\* no error is raised.
C8_EmptyNameOrPayloadSkipped ==
    /\ lastPart.valid
    /\ lastPart.attachment
    /\ \/ lastPart.decoded = <<>>
       \/ ~lastPart.payload.present
       \/ lastPart.payload.bytes = <<>>
    => ~lastPart.wrote /\ ~lastPart.madeDirs /\ ~lastPart.raised

\* C9 as stated: at most one extraction_worker thread runs at any time.
C9_OneWorkerAlive == Cardinality({w \in Workers : Alive(w)}) <= 1

\* C9 as amended: at most one thread is between its first line and its reset
\* of self.processing, self.processing is set while it is, so no two threads
\* are inside extract_attachments at once.
C9_OneWorkerWorking ==
    /\ Cardinality({w \in Workers : Working(w)}) <= 1
    /\ \A w \in Workers : Working(w) => processing

\* a second thread inside extract_attachments while the first runs its last lines
C9_Witness ==
    \E v, w \in Workers :
        /\ workers[v].pc = "ask"
        /\ workers[w].pc = "walk"

\* C10: when a worker ends it has processed the files that were in eml_files
\* when it started, each once and in that order, and its two counts add up to
\* total_files.
C10_ProcessesStartingList ==
    \A w \in Workers :
        Completed(w) =>
            /\ workers[w].processed = workers[w].snapshot
            /\ workers[w].success_count + workers[w].error_count = workers[w].total_files

====
